---- MODULE Spec2Model ----
(***************************************************************************)
(* A model of the CSV cleaning session of data-refine-studio:              *)
(*   - csvUtils (parseCSV, removeDuplicates, trimWhitespace,               *)
(*     standardizeCase, removeEmptyRows, downloadCleanedCSV),              *)
(*   - the CleaningOptions component (toggleOption, cleanData and its      *)
(*     delayed callback),                                                  *)
(*   - the Index page (handleFileUploaded, handleDataCleaned,              *)
(*     handleDownload, the tabs).                                          *)
(*                                                                         *)
(* A JavaScript string is a sequence of one-character strings, so that     *)
(* split, trim, toLowerCase and join are computed character by character.  *)
(* A cell is such a sequence, or one of the two values NullCell and        *)
(* Undefined; a row is a sequence of cells, or the value NullRow.          *)
(***************************************************************************)
EXTENDS Integers, Sequences, FiniteSets, TLC

\* ------------------------------------------------------------------------
\* Characters and strings
\* ------------------------------------------------------------------------

\* The characters String.prototype.trim strips that occur in the model.
WhiteSpace == {" ", "\t", "\r", "\n"}

UpperCase == <<"A","B","C","D","E","F","G","H","I","J","K","L","M",
               "N","O","P","Q","R","S","T","U","V","W","X","Y","Z">>

LowerCase == <<"a","b","c","d","e","f","g","h","i","j","k","l","m",
               "n","o","p","q","r","s","t","u","v","w","x","y","z">>

Digits == {"0","1","2","3","4","5","6","7","8","9"}

\* The values a cell can hold besides a string (TypeScript's types are erased
\* at run time).  Their element is no character, so they equal no string.
NullCell == <<"null">>

Undefined == <<"undefined">>

NullRow == << <<"nullrow">> >>

IsNullish(cell) == cell \in {NullCell, Undefined}

LowerOf ==
    [c \in {UpperCase[i] : i \in 1..26} |->
        LowerCase[CHOOSE i \in 1..26 : UpperCase[i] = c]]

LowerChar(c) == IF c \in DOMAIN LowerOf THEN LowerOf[c] ELSE c

\* String.prototype.toLowerCase
ToLowerCase(s) == [i \in 1..Len(s) |-> LowerChar(s[i])]

\* String.prototype.trim: drop the leading and the trailing white space.
Trim(s) ==
    LET nonWs == {i \in 1..Len(s) : s[i] \notin WhiteSpace}
    IN  IF nonWs = {} THEN <<>>
        ELSE LET lo == CHOOSE i \in nonWs : \A j \in nonWs : i <= j
                 hi == CHOOSE i \in nonWs : \A j \in nonWs : j <= i
             IN  SubSeq(s, lo, hi)

\* String.prototype.includes for a one-character needle.
Includes(s, c) == \E i \in 1..Len(s) : s[i] = c

\* Array.prototype.join with a one-character separator; null and undefined
\* elements are joined as the empty string.
RECURSIVE Join(_, _)
Join(cells, sep) ==
    IF cells = <<>> THEN <<>>
    ELSE LET head == IF IsNullish(cells[1]) THEN <<>> ELSE cells[1]
         IN  IF Len(cells) = 1 THEN head
             ELSE head \o <<sep>> \o Join(Tail(cells), sep)

\* String.prototype.split with a one-character separator: always at least one
\* piece, the pieces between consecutive separators.
RECURSIVE SplitFrom(_, _, _)
SplitFrom(s, sep, cur) ==
    IF s = <<>> THEN <<cur>>
    ELSE IF s[1] = sep THEN <<cur>> \o SplitFrom(Tail(s), sep, <<>>)
    ELSE SplitFrom(Tail(s), sep, Append(cur, s[1]))

Split(s, sep) == SplitFrom(s, sep, <<>>)

\* csvContent.split(/\r?\n/): a line ends at "\n" or at "\r\n"; a "\r" that no
\* "\n" follows stays in its line.
RECURSIVE SplitLinesFrom(_, _)
SplitLinesFrom(s, cur) ==
    IF s = <<>> THEN <<cur>>
    ELSE IF s[1] = "\n" THEN <<cur>> \o SplitLinesFrom(Tail(s), <<>>)
    ELSE IF s[1] = "\r" /\ Len(s) >= 2 /\ s[2] = "\n"
         THEN <<cur>> \o SplitLinesFrom(Tail(Tail(s)), <<>>)
    ELSE SplitLinesFrom(Tail(s), Append(cur, s[1]))

SplitLines(s) == SplitLinesFrom(s, <<>>)

\* isNaN(Number(cell)) for the cells of the model: Number gives 0 for a string
\* that is empty after trimming and a number for a string of digits; every
\* other string over the model's characters (letters, separators, inner white
\* space) is NaN.  Number(null) is 0 and Number(undefined) is NaN.
NumberIsNaN(cell) ==
    IF cell = NullCell THEN FALSE
    ELSE IF cell = Undefined THEN TRUE
    ELSE LET t == Trim(cell)
         IN  ~(\A i \in 1..Len(t) : t[i] \in Digits)

\* ------------------------------------------------------------------------
\* csvUtils
\* ------------------------------------------------------------------------

\* The delimiter parseCSV chooses: from the first line of the content, before
\* the blank lines are filtered out.
DetectDelimiter(csvContent) ==
    LET firstLine == SplitLines(csvContent)[1]
    IN  IF Includes(firstLine, ";") THEN ";" ELSE ","

NonBlank(line) == Trim(line) # <<>>

\* A mutant: the cells are not trimmed.
SplitUntrimmed(line, delimiter) == Split(line, delimiter)

SplitTrim(line, delimiter) ==
    LET cells == Split(line, delimiter)
    IN  [i \in 1..Len(cells) |-> Trim(cells[i])]

\* A mutant: the cells of the data rows are not trimmed.
parseCSVRowsUntrimmed(csvContent) ==
    LET delimiter == DetectDelimiter(csvContent)
        lines == SelectSeq(SplitLines(csvContent), NonBlank)
    IN  IF Len(lines) = 0
        THEN [data |-> <<>>, headers |-> <<>>]
        ELSE [data |-> [i \in 1..(Len(lines) - 1) |->
                            Split(lines[i + 1], delimiter)],
              headers |-> SplitTrim(lines[1], delimiter)]

parseCSV(csvContent) ==
    LET delimiter == DetectDelimiter(csvContent)
        lines == SelectSeq(SplitLines(csvContent), NonBlank)
    IN  IF Len(lines) = 0
        THEN [data |-> <<>>, headers |-> <<>>]
        ELSE [data |-> [i \in 1..(Len(lines) - 1) |->
                            SplitTrim(lines[i + 1], delimiter)],
              headers |-> SplitTrim(lines[1], delimiter)]

\* (cell || '').trim().toLowerCase()
NormalizeCell(cell) ==
    IF IsNullish(cell) THEN <<>> ELSE ToLowerCase(Trim(cell))

\* The key removeDuplicates compares rows by: the normalized cells joined by
\* the pipe character.
normalizedKey(row) ==
    Join([i \in 1..Len(row) |-> NormalizeCell(row[i])], "|")

RECURSIVE DedupFrom(_, _, _, _)
DedupFrom(data, signatures, uniqueData, duplicatesCount) ==
    IF data = <<>>
    THEN [threw |-> FALSE, data |-> uniqueData, count |-> duplicatesCount]
    ELSE IF data[1] = NullRow
    THEN [threw |-> TRUE, data |-> <<>>, count |-> 0]
    ELSE LET key == normalizedKey(data[1])
         IN  IF key \notin signatures
             THEN DedupFrom(Tail(data), signatures \cup {key},
                            Append(uniqueData, data[1]), duplicatesCount)
             ELSE DedupFrom(Tail(data), signatures, uniqueData,
                            duplicatesCount + 1)

\* row.map on a null row raises a TypeError.
removeDuplicates(data) == DedupFrom(data, {}, <<>>, 0)

HasNullRow(data) == \E i \in 1..Len(data) : data[i] = NullRow

TrimCell(cell) ==
    IF IsNullish(cell) \/ cell = <<>> THEN cell ELSE Trim(cell)

RECURSIVE SumSeq(_)
SumSeq(ns) == IF ns = <<>> THEN 0 ELSE ns[1] + SumSeq(Tail(ns))

\* A mutant: a row with a changed cell counts once.
RowFixed(row) ==
    IF \E i \in 1..Len(row) : TrimCell(row[i]) # row[i] THEN 1 ELSE 0

CellsFixedInRow(row) ==
    SumSeq([i \in 1..Len(row) |-> IF TrimCell(row[i]) # row[i] THEN 1 ELSE 0])

trimWhitespace(data) ==
    IF HasNullRow(data)
    THEN [threw |-> TRUE, data |-> <<>>, count |-> 0]
    ELSE [threw |-> FALSE,
          data |-> [i \in 1..Len(data) |->
                       [j \in 1..Len(data[i]) |-> TrimCell(data[i][j])]],
          count |-> SumSeq([i \in 1..Len(data) |-> CellsFixedInRow(data[i])])]

\* A mutant: no cell is lowercased.
CaseCellKept(cell) == cell

CaseCell(cell) ==
    IF NumberIsNaN(cell) /\ cell # <<>> THEN ToLowerCase(cell) ELSE cell

\* undefined.toLowerCase() raises a TypeError, as row.map on a null row does.
standardizeCase(data, hdrs) ==
    IF HasNullRow(data)
       \/ \E i \in 1..Len(data) : \E j \in 1..Len(data[i]) :
              data[i][j] = Undefined
    THEN [threw |-> TRUE, data |-> <<>>]
    ELSE [threw |-> FALSE,
          data |-> [i \in 1..Len(data) |->
                       [j \in 1..Len(data[i]) |-> CaseCell(data[i][j])]]]

\* row[0] || '' of removeEmptyRows: the first cell, or the empty string when
\* the row has none or the cell is null, undefined or empty.
nameColumn(row) ==
    IF Len(row) = 0 \/ IsNullish(row[1]) THEN <<>> ELSE row[1]

KeepRow(row) == Trim(nameColumn(row)) # <<>>

\* A mutant: the count is the number of rows kept.
removeEmptyRowsCountsKept(data) ==
    IF HasNullRow(data)
    THEN [threw |-> TRUE, data |-> <<>>, count |-> 0]
    ELSE LET filteredData == SelectSeq(data, KeepRow)
         IN  [threw |-> FALSE, data |-> filteredData,
              count |-> Len(filteredData)]

\* row[0] on a null row raises a TypeError.
removeEmptyRows(data) ==
    IF HasNullRow(data)
    THEN [threw |-> TRUE, data |-> <<>>, count |-> 0]
    ELSE LET filteredData == SelectSeq(data, KeepRow)
         IN  [threw |-> FALSE, data |-> filteredData,
              count |-> Len(data) - Len(filteredData)]


\* What downloadCleanedCSV hands to the browser: the delimiter it chooses
\* (from the file name), the text and the suggested file name.  A file name
\* is a sequence of tokens ("data", "semicolon", ".csv", ".CSV", "-cleaned"):
\* it includes 'semicolon' exactly when that token occurs in it.
ExportDelimiter(name) ==
    IF \E i \in 1..Len(name) : name[i] = "semicolon" THEN ";" ELSE ","

RECURSIVE JoinLines(_)
JoinLines(lines) ==
    IF lines = <<>> THEN <<>>
    ELSE IF Len(lines) = 1 THEN lines[1]
    ELSE lines[1] \o <<"\n">> \o JoinLines(Tail(lines))

\* A mutant: the header line is left out of the text.
csvContentNoHeader(data, hdrs, delimiter) ==
    JoinLines([i \in 1..Len(data) |-> Join(data[i], delimiter)])

\* The text of the export: the header line and the row lines, each joined by
\* the delimiter, joined by "\n".
csvContent(data, hdrs, delimiter) ==
    JoinLines(<<Join(hdrs, delimiter)>> \o
                  [i \in 1..Len(data) |-> Join(data[i], delimiter)])

downloadCleanedCSV(data, hdrs, name) ==
    LET delimiter == ExportDelimiter(name)
    IN  [delimiter |-> delimiter,
         content |-> csvContent(data, hdrs, delimiter),
         name |-> name]

\* ------------------------------------------------------------------------
\* File names
\* ------------------------------------------------------------------------

\* file.name.toLowerCase().endsWith('.csv')
AcceptedName(name) ==
    Len(name) > 0 /\ name[Len(name)] \in {".csv", ".CSV"}

\* fileName.replace('.csv', '-cleaned.csv'): only the first '.csv', and only
\* in lower case.
RECURSIVE ReplaceCsv(_)
ReplaceCsv(name) ==
    IF name = <<>> THEN <<>>
    ELSE IF name[1] = ".csv" THEN <<"-cleaned", ".csv">> \o Tail(name)
    ELSE <<name[1]>> \o ReplaceCsv(Tail(name))

\* ------------------------------------------------------------------------
\* The session: the Index page and the CleaningOptions component
\* ------------------------------------------------------------------------

VARIABLES
    csvData,        \* Index: the current table
    originalData,   \* Index: the table stored by the upload
    headers,        \* Index
    fileName,       \* Index
    activeTab,      \* Index: "upload", "preview" or "clean"
    options,        \* CleaningOptions: the four switches
    isProcessing,   \* CleaningOptions: a cleaning run is scheduled
    stats,          \* CleaningOptions: the displayed stats, or NoStats
    timers,         \* the setTimeout callbacks of cleanData not yet run
    toast,          \* the title of the toast the last step showed
    download,       \* the file the last step handed to the browser
    delimiterUsed,  \* history: the delimiter parseCSV split the upload by
    lastRun,        \* history: the last cleaning callback that ran
    firstRun,       \* history: the first cleaning callback since the upload,
                    \*   recorded where the specification tracks it
    arg,            \* the argument of a csvUtils function called on its own
    ret             \* what that call returned

vars == <<csvData, originalData, headers, fileName, activeTab, options,
          isProcessing, stats, timers, toast, download, delimiterUsed,
          lastRun, firstRun, arg, ret>>

indexVars == <<csvData, originalData, headers, fileName, activeTab>>

utilVars == <<arg, ret>>

OptionNames ==
    {"removeDuplicates", "trimWhitespace", "standardizeCase", "removeEmptyRows"}

DefaultOptions ==
    [removeDuplicates |-> TRUE, trimWhitespace |-> TRUE,
     standardizeCase |-> FALSE, removeEmptyRows |-> TRUE]

NoStats == [shown |-> FALSE, duplicatesRemoved |-> 0, whitespaceFixed |-> 0,
            emptyRowsRemoved |-> 0]

ZeroStats == [shown |-> TRUE, duplicatesRemoved |-> 0, whitespaceFixed |-> 0,
              emptyRowsRemoved |-> 0]

NoDownload == [delimiter |-> "", content |-> <<>>, name |-> <<>>]

NoRun == [ran |-> FALSE]

\* firstRun before the first callback, where it is tracked and where not.
NoFirstRun == [ran |-> FALSE, tracked |-> TRUE]

NotTracked == [ran |-> FALSE, tracked |-> FALSE]

NoCall == [op |-> "none"]

\* The Clean tab shows CleaningOptions (and the download button) only while
\* it is the active tab and the current table has rows.
CleanMounted(tab, csv) == tab = "clean" /\ Len(csv) > 0

\* One transform of the cleaning callback, as its if statement runs it on the
\* state s of the try block (the table so far, the stats so far, the
\* transforms completed and whether one raised).  A transform that raises ends
\* the try block: the later ones are not reached.
EmptyRowsStep(s, opts) ==
    IF s.threw \/ ~opts.removeEmptyRows THEN s
    ELSE LET r == removeEmptyRows(s.data)
         IN  IF r.threw THEN [s EXCEPT !.threw = TRUE]
             ELSE [s EXCEPT !.data = r.data,
                            !.stats.emptyRowsRemoved = r.count,
                            !.applied = Append(@, "removeEmptyRows")]

DuplicatesStep(s, opts) ==
    IF s.threw \/ ~opts.removeDuplicates THEN s
    ELSE LET r == removeDuplicates(s.data)
         IN  IF r.threw THEN [s EXCEPT !.threw = TRUE]
             ELSE [s EXCEPT !.data = r.data,
                            !.stats.duplicatesRemoved = r.count,
                            !.applied = Append(@, "removeDuplicates")]

WhitespaceStep(s, opts) ==
    IF s.threw \/ ~opts.trimWhitespace THEN s
    ELSE LET r == trimWhitespace(s.data)
         IN  IF r.threw THEN [s EXCEPT !.threw = TRUE]
             ELSE [s EXCEPT !.data = r.data,
                            !.stats.whitespaceFixed = r.count,
                            !.applied = Append(@, "trimWhitespace")]

CaseStep(s, hdrs, opts) ==
    IF s.threw \/ ~opts.standardizeCase THEN s
    ELSE LET r == standardizeCase(s.data, hdrs)
         IN  IF r.threw THEN [s EXCEPT !.threw = TRUE]
             ELSE [s EXCEPT !.data = r.data,
                            !.applied = Append(@, "standardizeCase")]

\* let cleanedData = [...data] and statsCopy, before the callback.
TryStart(data) ==
    [threw |-> FALSE, data |-> data, stats |-> ZeroStats, applied |-> <<>>]

\* A mutant: duplicates are removed before the empty rows.
cleanDataDuplicatesFirst(data, hdrs, opts) ==
    CaseStep(WhitespaceStep(EmptyRowsStep(DuplicatesStep(TryStart(data),
        opts), opts), opts), hdrs, opts)

\* The try block of the cleaning callback: the four transforms in the order
\* of the code.
cleanDataTransforms(data, hdrs, opts) ==
    CaseStep(WhitespaceStep(DuplicatesStep(EmptyRowsStep(TryStart(data),
        opts), opts), opts), hdrs, opts)

\* ------------------------------------------------------------------------
\* Inputs
\* ------------------------------------------------------------------------

\* "Name,City\nAlice, NYC\nAlice,NYC\n, \n"
EndToEndText ==
    <<"N", "a", "m", "e", ",", "C", "i", "t", "y", "\n", "A", "l", "i",
      "c", "e", ",", " ", "N", "Y", "C", "\n", "A", "l", "i", "c", "e",
      ",", "N", "Y", "C", "\n", ",", " ", "\n">>

\* "a;b\n1;2"
SemicolonText ==
    <<"a", ";", "b", "\n", "1", ";", "2">>

\* "\na;b\n1;2": the same file after one empty line
LeadingBlankText ==
    <<"\n", "a", ";", "b", "\n", "1", ";", "2">>

\* "h,k\n,x\n,x": two equal rows whose first cell is empty
BlankNameText ==
    <<"h", ",", "k", "\n", ",", "x", "\n", ",", "x">>

\* "h,k\nA,1\na,1\nB,2"
DuplicateText ==
    <<"h", ",", "k", "\n", "A", ",", "1", "\n", "a", ",", "1", "\n", "B",
      ",", "2">>

\* "h\na|b\na,b": a cell that holds the pipe character
PipeText ==
    <<"h", "\n", "a", "|", "b", "\n", "a", ",", "b">>

\* "h,k\n": a header and no row
HeaderOnlyText ==
    <<"h", ",", "k", "\n">>

\* The files a session uploads: a name that processFile accepts and the text
\* the reader gives.
SessionFiles ==
    {[name |-> <<"data", ".csv">>, content |-> SemicolonText],
     [name |-> <<"semicolon", ".csv">>, content |-> DuplicateText],
     [name |-> <<"data", ".CSV">>, content |-> BlankNameText],
     [name |-> <<"data", ".csv", ".csv">>, content |-> HeaderOnlyText]}

RejectedNames == {<<"data", ".txt">>, <<"data">>}


\* A table handed to CleaningOptions that TypeScript's types do not rule out
\* at run time: a null row, an undefined cell.
NullRowTable ==
    [data |-> << <<<<" ", "a">>, <<"A">>>>, NullRow >>,
     headers |-> <<<<"h">>, <<"k">>>>]

UndefinedCellTable ==
    [data |-> << <<<<" ", "a">>, Undefined>>, <<<<"a">>, Undefined>>,
                 <<<<>>, <<"b">>>> >>,
     headers |-> <<<<"h">>, <<"k">>>>]

\* The tables CleaningOptions is given on its own: the tables parseCSV makes
\* of the session's files that have rows, and the two malformed ones.
ComponentTables ==
    {parseCSV(t) : t \in {EndToEndText, SemicolonText, BlankNameText,
                          DuplicateText, PipeText}}
    \cup {NullRowTable, UndefinedCellTable}

\* ------------------------------------------------------------------------
\* Actions
\* ------------------------------------------------------------------------

\* The bound on the cleaning callbacks scheduled and not yet run (one for
\* each CleaningOptions instance mounted within the 500 ms delay).
MaxTimers == 1

\* A mutant: CleaningOptions is rendered with the current table.
CleanInputCurrent == csvData

\* CleaningOptions is rendered with data={originalData}.
CleanInput == originalData

\* What unmounting CleaningOptions does: its state is dropped (a later mount
\* starts from the defaults) and its scheduled callbacks, which still run,
\* set the state of no mounted component.
Orphaned(ts) == [i \in 1..Len(ts) |-> [ts[i] EXCEPT !.live = FALSE]]

\* toggleOption
ToggleOption(option) ==
    /\ CleanMounted(activeTab, csvData)
    /\ options' = [options EXCEPT ![option] = ~@]
    /\ toast' = "none"
    /\ download' = NoDownload
    /\ UNCHANGED <<indexVars, isProcessing, stats, timers, delimiterUsed,
                   lastRun, firstRun, utilVars>>

\* cleanData up to setTimeout: the button is disabled while isProcessing; the
\* callback closes over data, headers and options of this render.
CleanData ==
    /\ CleanMounted(activeTab, csvData)
    /\ ~isProcessing
    /\ Len(timers) < MaxTimers
    /\ IF Len(CleanInput) = 0
       THEN UNCHANGED <<isProcessing, timers>>
       ELSE /\ isProcessing' = TRUE
            /\ timers' = Append(timers,
                   [data |-> CleanInput, hdrs |-> headers, opts |-> options,
                    live |-> TRUE, orig |-> originalData])
    /\ toast' = "none"
    /\ download' = NoDownload
    /\ UNCHANGED <<indexVars, options, stats, delimiterUsed, lastRun,
                   firstRun, utilVars>>

\* A mutant: the table is published whether or not a transform raised.
CsvAfterRunPartial(run, csv) == run.data

\* The table the page shows after a cleaning callback: onDataCleaned is called
\* at the end of the try block, so not at all when a transform raised.
CsvAfterRun(run, csv) == IF run.threw THEN csv ELSE run.data

\* The stats CleaningOptions shows after its callback: setStats is called at
\* the end of the try block too.
StatsAfterRun(run, shown) == IF run.threw THEN shown ELSE run.stats

\* The setTimeout callback of cleanData, with handleDataCleaned.
TimerFired ==
    /\ timers # <<>>
    /\ LET t == Head(timers)
           run == cleanDataTransforms(t.data, t.hdrs, t.opts)
           newCsv == CsvAfterRun(run, csvData)
           wasMounted == CleanMounted(activeTab, csvData)
           nowMounted == CleanMounted(activeTab, newCsv)
           record == [ran |-> TRUE, opts |-> t.opts, orig |-> t.orig,
                      input |-> t.data, threw |-> run.threw,
                      data |-> run.data, stats |-> run.stats,
                      applied |-> run.applied,
                      again |-> lastRun.ran /\ firstRun.tracked,
                      tracked |-> firstRun.tracked]
       IN  /\ csvData' = newCsv
           /\ IF wasMounted /\ ~nowMounted
              THEN /\ options' = DefaultOptions
                   /\ isProcessing' = FALSE
                   /\ stats' = NoStats
                   /\ timers' = Orphaned(Tail(timers))
              ELSE /\ options' = options
                   /\ isProcessing' = IF t.live THEN FALSE ELSE isProcessing
                   /\ stats' = IF t.live THEN StatsAfterRun(run, stats)
                               ELSE stats
                   /\ timers' = Tail(timers)
           /\ toast' = IF run.threw THEN "Error cleaning data"
                       ELSE "Data cleaning complete"
           /\ lastRun' = record
           /\ firstRun' = IF firstRun.ran \/ ~firstRun.tracked THEN firstRun
                          ELSE record
    /\ download' = NoDownload
    /\ UNCHANGED <<originalData, headers, fileName, activeTab, delimiterUsed,
                   utilVars>>

\* A tab trigger, or the Proceed to Cleaning button: Preview and Clean are
\* disabled while the current table has no rows.
SetActiveTab(tab) ==
    /\ tab # activeTab
    /\ tab = "upload" \/ Len(csvData) > 0
    /\ activeTab' = tab
    /\ IF CleanMounted(activeTab, csvData) /\ ~CleanMounted(tab, csvData)
       THEN /\ options' = DefaultOptions
            /\ isProcessing' = FALSE
            /\ stats' = NoStats
            /\ timers' = Orphaned(timers)
       ELSE UNCHANGED <<options, isProcessing, stats, timers>>
    /\ toast' = "none"
    /\ download' = NoDownload
    /\ UNCHANGED <<csvData, originalData, headers, fileName, delimiterUsed,
                   lastRun, firstRun, utilVars>>

\* processFile on a name that does not end in .csv.
RejectFile(name) ==
    /\ activeTab = "upload"
    /\ ~AcceptedName(name)
    /\ toast' = "Invalid file format"
    /\ download' = NoDownload
    /\ UNCHANGED <<indexVars, options, isProcessing, stats, timers,
                   delimiterUsed, lastRun, firstRun, utilVars>>

\* handleFileUploaded
handleFileUploaded(data, hdrs, name) ==
    /\ csvData' = data
    /\ originalData' = data
    /\ headers' = hdrs
    /\ fileName' = name
    /\ activeTab' = "preview"
    /\ toast' = "File uploaded successfully"

\* processFile on an accepted name, the reader's onload (parseCSV) and
\* handleFileUploaded.  FileUpload is rendered in the Upload tab only.
FileUploaded(content, name) ==
    /\ activeTab = "upload"
    /\ AcceptedName(name)
    /\ LET parsed == parseCSV(content)
       IN  handleFileUploaded(parsed.data, parsed.headers, name)
    /\ delimiterUsed' = DetectDelimiter(content)
    /\ lastRun' = NoRun
    /\ firstRun' = [ran |-> FALSE, tracked |-> firstRun.tracked]
    /\ download' = NoDownload
    /\ UNCHANGED <<options, isProcessing, stats, timers, utilVars>>

\* handleDownload: the button is rendered in the Clean tab, beside
\* CleaningOptions.
HandleDownload ==
    /\ CleanMounted(activeTab, csvData)
    /\ IF Len(csvData) > 0 /\ Len(headers) > 0
       THEN /\ download' = downloadCleanedCSV(csvData, headers,
                                              ReplaceCsv(fileName))
            /\ toast' = "File downloaded"
       ELSE /\ download' = NoDownload
            /\ toast' = "none"
    /\ UNCHANGED <<indexVars, options, isProcessing, stats, timers,
                   delimiterUsed, lastRun, firstRun, utilVars>>

\* ------------------------------------------------------------------------
\* Specifications
\* ------------------------------------------------------------------------

ComponentInit ==
    /\ options = DefaultOptions
    /\ isProcessing = FALSE
    /\ stats = NoStats
    /\ timers = <<>>
    /\ toast = "none"
    /\ download = NoDownload
    /\ lastRun = NoRun

\* The session: the page as constructed, then any user action.
Init ==
    /\ csvData = <<>>
    /\ originalData = <<>>
    /\ headers = <<>>
    /\ fileName = <<>>
    /\ activeTab = "upload"
    /\ delimiterUsed = ","
    /\ ComponentInit
    /\ firstRun = NotTracked
    /\ arg = <<>>
    /\ ret = NoCall

Next ==
    \/ \E file \in SessionFiles : FileUploaded(file.content, file.name)
    \/ \E name \in RejectedNames : RejectFile(name)
    \/ \E tab \in {"upload", "preview", "clean"} : SetActiveTab(tab)
    \/ \E option \in OptionNames : ToggleOption(option)
    \/ CleanData
    \/ TimerFired
    \/ HandleDownload

Spec == Init /\ [][Next]_vars

\* CleaningOptions on its own: mounted in the Clean tab with a table as its
\* data, then any sequence of switches, Apply Cleaning clicks and callbacks.
MountedWith(tables) ==
    /\ \E table \in tables :
           /\ csvData = table.data
           /\ originalData = table.data
           /\ headers = table.headers
    /\ fileName = <<"data", ".csv">>
    /\ activeTab = "clean"
    /\ delimiterUsed = ","
    /\ ComponentInit
    /\ arg = <<>>
    /\ ret = NoCall

CleanInit == MountedWith(ComponentTables) /\ firstRun = NotTracked

CleanNext ==
    \/ \E option \in OptionNames : ToggleOption(option)
    \/ CleanData
    \/ TimerFired

SpecClean == CleanInit /\ [][CleanNext]_vars

\* The same, on the table of one uploaded file, with the first callback kept
\* to compare the later ones with.
RerunInit ==
    MountedWith({parseCSV(EndToEndText)}) /\ firstRun = NoFirstRun

SpecRerun == RerunInit /\ [][CleanNext]_vars


\* ------------------------------------------------------------------------
\* The csvUtils functions called on their own
\* ------------------------------------------------------------------------

\* The bound on the length of the texts given to parseCSV.
MaxTextLen == 5

\* The bound on the number of rows of the tables given to the transforms.
MaxRows == 2

ParseChars == {"a", " ", ",", ";", "\n", "\r"}

BoundedSeqs(S, n) == UNION {[1..k -> S] : k \in 0..n}

ParseTexts ==
    BoundedSeqs(ParseChars, MaxTextLen)
    \cup {EndToEndText, SemicolonText, LeadingBlankText, DuplicateText}

\* The cells of the tables: empty, padded, upper and lower case, the pipe
\* character, undefined.
TableCells == {<<>>, <<" ", "a">>, <<"A">>, <<"|">>, Undefined}

TableRows ==
    {<<c>> : c \in TableCells} \cup {<<c, d>> : c, d \in TableCells}

\* [["A","1"],["a","1"],["B","2"]], [["",""],["x","y"]] and [[" x ","y"]]
ExampleTables ==
    {<< <<<<"A">>, <<"1">>>>, <<<<"a">>, <<"1">>>>, <<<<"B">>, <<"2">>>> >>,
     << <<<<>>, <<>>>>, <<<<"x">>, <<"y">>>> >>,
     << <<<<" ", "x", " ">>, <<"y">>>> >>}

Tables == BoundedSeqs(TableRows, MaxRows) \cup ExampleTables

SessionIdle ==
    /\ csvData = <<>>
    /\ originalData = <<>>
    /\ headers = <<>>
    /\ fileName = <<>>
    /\ activeTab = "upload"
    /\ delimiterUsed = ","
    /\ ComponentInit
    /\ firstRun = NotTracked

sessionVars == <<csvData, originalData, headers, fileName, activeTab,
                 options, isProcessing, stats, timers, toast, download,
                 delimiterUsed, lastRun, firstRun>>

CallParseCSV ==
    /\ ret = NoCall
    /\ LET parsed == parseCSV(arg)
       IN  ret' = [op |-> "parseCSV", delimiter |-> DetectDelimiter(arg),
                   data |-> parsed.data, headers |-> parsed.headers]
    /\ UNCHANGED <<arg, sessionVars>>

ParseInit == SessionIdle /\ arg \in ParseTexts /\ ret = NoCall

SpecParse == ParseInit /\ [][CallParseCSV]_vars

\* The text of the export made of what parseCSV returned, with the delimiter
\* parseCSV split by, given to parseCSV again.
CallSerializeParse ==
    /\ ret.op = "parseCSV"
    /\ LET text == csvContent(ret.data, ret.headers, ret.delimiter)
           parsed == parseCSV(text)
       IN  ret' = [op |-> "reparse", delimiter |-> DetectDelimiter(text),
                   data |-> parsed.data, headers |-> parsed.headers,
                   text |-> text, first |-> ret]
    /\ UNCHANGED <<arg, sessionVars>>

RoundTripNext ==
    \/ CallParseCSV
    \/ CallSerializeParse

SpecRoundTrip == ParseInit /\ [][RoundTripNext]_vars

CallRemoveDuplicates ==
    /\ ret = NoCall
    /\ LET r == removeDuplicates(arg)
       IN  ret' = [op |-> "removeDuplicates", threw |-> r.threw,
                   data |-> r.data, count |-> r.count]
    /\ UNCHANGED <<arg, sessionVars>>

CallRemoveEmptyRows ==
    /\ ret = NoCall
    /\ LET r == removeEmptyRows(arg)
       IN  ret' = [op |-> "removeEmptyRows", threw |-> r.threw,
                   data |-> r.data, count |-> r.count]
    /\ UNCHANGED <<arg, sessionVars>>

CallTrimWhitespace ==
    /\ ret = NoCall
    /\ LET r == trimWhitespace(arg)
       IN  ret' = [op |-> "trimWhitespace", threw |-> r.threw,
                   data |-> r.data, count |-> r.count]
    /\ UNCHANGED <<arg, sessionVars>>

CallStandardizeCase ==
    /\ ret = NoCall
    /\ LET r == standardizeCase(arg, <<>>)
       IN  ret' = [op |-> "standardizeCase", threw |-> r.threw,
                   data |-> r.data, count |-> 0]
    /\ UNCHANGED <<arg, sessionVars>>

TransformInit == SessionIdle /\ arg \in Tables /\ ret = NoCall

TransformNext ==
    \/ CallRemoveDuplicates
    \/ CallRemoveEmptyRows
    \/ CallTrimWhitespace
    \/ CallStandardizeCase

SpecTransform == TransformInit /\ [][TransformNext]_vars

\* The option settings ToggleOption can reach.
OptionSettings == [OptionNames -> BOOLEAN]

\* The cleaning callback on the table parseCSV returned, as CleaningOptions
\* runs it on the uploaded table under the options opts; cleanData returns at
\* once on a table without rows.
CallCleanParsed(opts) ==
    /\ ret.op = "parseCSV"
    /\ Len(ret.data) > 0
    /\ LET run == cleanDataTransforms(ret.data, ret.headers, opts)
       IN  ret' = [op |-> "cleanData", opts |-> opts, input |-> ret.data,
                   headers |-> ret.headers, threw |-> run.threw,
                   data |-> run.data, stats |-> run.stats,
                   applied |-> run.applied]
    /\ UNCHANGED <<arg, sessionVars>>

ParseCleanNext ==
    \/ CallParseCSV
    \/ \E opts \in OptionSettings : CallCleanParsed(opts)

SpecParseClean == ParseInit /\ [][ParseCleanNext]_vars

\* The cleaning callback on a table given to CleaningOptions, under the
\* options opts.
CallCleanTable(opts) ==
    /\ ret = NoCall
    /\ Len(arg) > 0
    /\ LET hdrs == <<<<"h">>, <<"k">>>>
           run == cleanDataTransforms(arg, hdrs, opts)
       IN  ret' = [op |-> "cleanData", opts |-> opts, input |-> arg,
                   headers |-> hdrs, threw |-> run.threw,
                   data |-> run.data, stats |-> run.stats,
                   applied |-> run.applied]
    /\ UNCHANGED <<arg, sessionVars>>

CleanTableNext == \E opts \in OptionSettings : CallCleanTable(opts)

SpecCleanTable == TransformInit /\ [][CleanTableNext]_vars


\* ------------------------------------------------------------------------
\* Properties of the cleaning runs
\* ------------------------------------------------------------------------

AllOptions ==
    [removeDuplicates |-> TRUE, trimWhitespace |-> TRUE,
     standardizeCase |-> TRUE, removeEmptyRows |-> TRUE]

\* What parseCSV makes of EndToEndText: [["Alice","NYC"],["Alice","NYC"],["",""]]
EndToEndTable ==
    << <<<<"A", "l", "i", "c", "e">>, <<"N", "Y", "C">>>>,
       <<<<"A", "l", "i", "c", "e">>, <<"N", "Y", "C">>>>,
       <<<<>>, <<>>>> >>

EndToEndRun ==
    /\ lastRun.ran
    /\ originalData = EndToEndTable
    /\ lastRun.input = originalData
    /\ lastRun.opts = AllOptions

\* C1 as stated: the run on the table parsed from "Name,City\nAlice, NYC\n
\* Alice,NYC\n, \n" with the four options enabled ends with the rows
\* [["Alice","NYC"]], emptyRowsRemoved = 1, duplicatesRemoved = 1 and
\* whitespaceFixed >= 1.
C1_EndToEndAsStated ==
    EndToEndRun =>
        /\ lastRun.data = << <<<<"A", "l", "i", "c", "e">>, <<"N", "Y", "C">>>> >>
        /\ lastRun.stats.emptyRowsRemoved = 1
        /\ lastRun.stats.duplicatesRemoved = 1
        /\ lastRun.stats.whitespaceFixed >= 1

\* C1 (amended): that run ends with the rows [["alice","nyc"]] (standardizeCase
\* lowercases the text cells), emptyRowsRemoved = 1, duplicatesRemoved = 1 and
\* whitespaceFixed = 0 (parseCSV has trimmed every cell), and these are the
\* table and the stats shown.
C1_EndToEnd ==
    EndToEndRun =>
        /\ ~lastRun.threw
        /\ lastRun.data = << <<<<"a", "l", "i", "c", "e">>, <<"n", "y", "c">>>> >>
        /\ lastRun.stats.emptyRowsRemoved = 1
        /\ lastRun.stats.duplicatesRemoved = 1
        /\ lastRun.stats.whitespaceFixed = 0
        /\ csvData = lastRun.data
        /\ stats = lastRun.stats

C1_Witness ==
    /\ EndToEndRun
    /\ Len(csvData) = 1
    /\ stats.shown

\* The fixed order of the transforms.
TransformOrder ==
    <<"removeEmptyRows", "removeDuplicates", "trimWhitespace",
      "standardizeCase">>

\* The transforms a run with these options is to apply, in the fixed order.
EnabledInOrder(opts) == SelectSeq(TransformOrder, LAMBDA name : opts[name])

\* C2: a cleaning run that completes has applied exactly the transforms whose
\* option was on when Apply Cleaning was clicked, in the order removeEmptyRows,
\* removeDuplicates, trimWhitespace, standardizeCase, each on the output of the
\* previous enabled one; the stats are the counts of the enabled transforms
\* and 0 for each skipped one.
C2_FixedOrder ==
    (lastRun.ran /\ ~lastRun.threw) =>
        LET opts == lastRun.opts
            d0 == lastRun.input
            e1 == removeEmptyRows(d0)
            d1 == IF opts.removeEmptyRows THEN e1.data ELSE d0
            e2 == removeDuplicates(d1)
            d2 == IF opts.removeDuplicates THEN e2.data ELSE d1
            e3 == trimWhitespace(d2)
            d3 == IF opts.trimWhitespace THEN e3.data ELSE d2
            d4 == IF opts.standardizeCase THEN standardizeCase(d3, headers).data
                  ELSE d3
        IN  /\ lastRun.applied = EnabledInOrder(opts)
            /\ lastRun.data = d4
            /\ lastRun.stats.emptyRowsRemoved =
                   IF opts.removeEmptyRows THEN e1.count ELSE 0
            /\ lastRun.stats.duplicatesRemoved =
                   IF opts.removeDuplicates THEN e2.count ELSE 0
            /\ lastRun.stats.whitespaceFixed =
                   IF opts.trimWhitespace THEN e3.count ELSE 0

\* A run in which the order decides the stats (two equal rows with an empty
\* first cell), made after the switches were toggled.
C2_Witness ==
    /\ lastRun.ran
    /\ ~lastRun.threw
    /\ lastRun.opts.removeEmptyRows
    /\ lastRun.opts.removeDuplicates
    /\ lastRun.opts.standardizeCase
    /\ ~lastRun.opts.trimWhitespace
    /\ lastRun.stats.emptyRowsRemoved = 2
    /\ lastRun.stats.duplicatesRemoved = 0

SameOutcome(r1, r2) ==
    /\ r1.threw = r2.threw
    /\ r1.data = r2.data
    /\ r1.stats = r2.stats

\* C3: every scheduled cleaning run has the table stored by the upload as its
\* input, whatever runs came before, and a run with the options of the first
\* run since the upload has the rows and the stats of that first run.
C3_RunsFromOriginal ==
    /\ \A i \in 1..Len(timers) :
           timers[i].data = originalData /\ timers[i].orig = originalData
    /\ lastRun.ran => lastRun.input = originalData /\ lastRun.orig = originalData
    /\ (firstRun.ran /\ lastRun.ran /\ lastRun.opts = firstRun.opts
            /\ lastRun.orig = firstRun.orig)
           => SameOutcome(lastRun, firstRun)

\* A later run with the options of the first run, after the first run changed
\* the current table.
C3_Witness ==
    /\ firstRun.ran
    /\ lastRun.ran
    /\ lastRun.again
    /\ lastRun.opts = firstRun.opts
    /\ lastRun.stats.duplicatesRemoved = 1
    /\ lastRun.stats.emptyRowsRemoved = 1
    /\ csvData # originalData

IsPrefix(p, q) == Len(p) <= Len(q) /\ p = SubSeq(q, 1, Len(p))

\* C4: a cleaning callback in which a transform raises shows the error toast
\* and leaves the current table and the displayed stats as they were; the
\* transforms it completed are those before the failing one in the order of
\* the enabled transforms, and none after it; a callback changes the table or
\* the stats only when every enabled transform has completed.
C4_AtomicRun ==
    [][(timers # <<>> /\ Len(timers') = Len(timers) - 1) =>
          /\ lastRun'.threw =>
                 /\ csvData' = csvData
                 /\ stats' = stats
                 /\ toast' = "Error cleaning data"
                 /\ IsPrefix(lastRun'.applied, EnabledInOrder(lastRun'.opts))
                 /\ Len(lastRun'.applied) < Len(EnabledInOrder(lastRun'.opts))
          /\ (csvData' # csvData \/ stats' # stats) =>
                 /\ ~lastRun'.threw
                 /\ lastRun'.applied = EnabledInOrder(lastRun'.opts)]_vars

\* A run that raised in standardizeCase after three transforms had completed,
\* while the table and the stats of an earlier run were shown.
C4_Witness ==
    /\ lastRun.ran
    /\ lastRun.threw
    /\ Len(lastRun.applied) = 3
    /\ lastRun.data # csvData
    /\ csvData # originalData
    /\ stats.shown
    /\ toast = "Error cleaning data"


\* ------------------------------------------------------------------------
\* Properties of the transforms
\* ------------------------------------------------------------------------

\* The k-th smallest element of a set of positions.
KthOf(S, k) == CHOOSE p \in S : Cardinality({q \in S : q <= p}) = k

\* The elements of seq at the positions in S, in order.
AtPositions(seq, S) == [k \in 1..Cardinality(S) |-> seq[KthOf(S, k)]]

StringTable(t) ==
    \A i \in 1..Len(t) : \A j \in 1..Len(t[i]) : ~IsNullish(t[i][j])

\* A row after trimming and lowercasing each cell.
NormRow(row) == [j \in 1..Len(row) |-> ToLowerCase(Trim(row[j]))]

\* C5 as stated: on a table of strings removeDuplicates gives two rows the
\* same signature only if they have the same number of cells and are equal
\* cell by cell after trimming and lowercasing, so that a row is dropped only
\* when a row equal to it in that sense is kept.
C5_NoSignatureCollision ==
    (ret.op = "removeDuplicates" /\ StringTable(arg)) =>
        /\ \A i, j \in 1..Len(arg) :
               normalizedKey(arg[i]) = normalizedKey(arg[j])
                   => NormRow(arg[i]) = NormRow(arg[j])
        /\ \A i \in 1..Len(arg) : \E k \in 1..Len(ret.data) :
               NormRow(ret.data[k]) = NormRow(arg[i])

\* C6 as stated: on a table of strings removeDuplicates returns, in input
\* order and with their original cells, exactly the rows that no earlier row
\* equals after trimming and lowercasing, and count is the number of rows
\* dropped.
C6_KeepsFirstOfEachGroup ==
    (ret.op = "removeDuplicates" /\ StringTable(arg)) =>
        LET firsts == {j \in 1..Len(arg) :
                          \A i \in 1..(j - 1) : NormRow(arg[i]) # NormRow(arg[j])}
        IN  /\ ~ret.threw
            /\ ret.data = AtPositions(arg, firsts)
            /\ ret.count = Len(arg) - Len(ret.data)

\* C7 as stated: on a table of strings removeEmptyRows removes exactly the
\* rows whose every cell is empty after trimming, keeps the others in order,
\* and count is the number of rows removed.
C7_RemovesAllBlankRowsOnly ==
    (ret.op = "removeEmptyRows" /\ StringTable(arg)) =>
        LET kept == {i \in 1..Len(arg) :
                        \E j \in 1..Len(arg[i]) : Trim(arg[i][j]) # <<>>}
        IN  /\ ~ret.threw
            /\ ret.data = AtPositions(arg, kept)
            /\ ret.count = Len(arg) - Cardinality(kept)

\* ------------------------------------------------------------------------
\* Properties of parseCSV and of the export
\* ------------------------------------------------------------------------

\* The lines of a text, from the places of its "\n": the k-th line lies
\* between the (k-1)-th and the k-th "\n", without the "\r" that ends it.
Newlines(t) == {i \in 1..Len(t) : t[i] = "\n"}

LineOf(t, k) ==
    LET n == Cardinality(Newlines(t))
        from == IF k = 1 THEN 1 ELSE KthOf(Newlines(t), k - 1) + 1
        to == IF k = n + 1 THEN Len(t) ELSE KthOf(Newlines(t), k) - 1
        cr == k <= n /\ to >= from /\ t[to] = "\r"
    IN  SubSeq(t, from, IF cr THEN to - 1 ELSE to)

IsBlank(line) == \A i \in 1..Len(line) : line[i] \in WhiteSpace

\* The lines of a text that are not blank, in order.
TextLines(t) ==
    LET all == [k \in 1..(Cardinality(Newlines(t)) + 1) |-> LineOf(t, k)]
    IN  AtPositions(all, {k \in 1..Len(all) : ~IsBlank(all[k])})

\* cell is piece without its leading and trailing white space.
IsTrimOf(cell, piece) ==
    /\ cell = <<>> \/ (cell[1] \notin WhiteSpace /\ cell[Len(cell)] \notin WhiteSpace)
    /\ \E lo \in 1..(Len(piece) + 1) :
           /\ cell = SubSeq(piece, lo, lo + Len(cell) - 1)
           /\ lo + Len(cell) - 1 <= Len(piece)
           /\ \A i \in 1..Len(piece) :
                  (i < lo \/ i >= lo + Len(cell)) => piece[i] \in WhiteSpace

\* row holds the trimmed pieces of line between its delimiters, one cell for
\* each piece.
IsRowOf(row, line, delimiter) ==
    LET at == {i \in 1..Len(line) : line[i] = delimiter}
        n == Cardinality(at)
        piece(j) ==
            SubSeq(line,
                   IF j = 1 THEN 1 ELSE KthOf(at, j - 1) + 1,
                   IF j = n + 1 THEN Len(line) ELSE KthOf(at, j) - 1)
    IN  /\ Len(row) = n + 1
        /\ \A j \in 1..(n + 1) : IsTrimOf(row[j], piece(j))

IsTableOf(parsed, lines, delimiter) ==
    /\ IsRowOf(parsed.headers, lines[1], delimiter)
    /\ Len(parsed.data) = Len(lines) - 1
    /\ \A i \in 1..Len(parsed.data) :
           IsRowOf(parsed.data[i], lines[i + 1], delimiter)

\* C8 as stated: the header and every row are split by ';' when the line that
\* becomes the header row contains ';', and by ',' otherwise.
C8_DelimiterOfHeaderLine ==
    (ret.op = "parseCSV" /\ TextLines(arg) # <<>>) =>
        LET lines == TextLines(arg)
            delimiter == IF Includes(lines[1], ";") THEN ";" ELSE ","
        IN  /\ ret.delimiter = delimiter
            /\ IsTableOf(ret, lines, delimiter)

\* C9: parseCSV returns empty headers and rows for a text with no non-blank
\* line; otherwise the headers are the trimmed cells of the first non-blank
\* line and the rows are, in order, the trimmed cells of each later non-blank
\* line, each row with as many cells as its line has pieces.
C9_ParseShape ==
    ret.op = "parseCSV" =>
        IF TextLines(arg) = <<>>
        THEN ret.headers = <<>> /\ ret.data = <<>>
        ELSE /\ ret.delimiter \in {",", ";"}
             /\ IsTableOf(ret, TextLines(arg), ret.delimiter)

\* A text with a blank line between its two lines, a padded header cell and a
\* row that has more cells than the header.
C9_Witness ==
    /\ ret.op = "parseCSV"
    /\ Len(TextLines(arg)) = 2
    /\ Cardinality(Newlines(arg)) = 2
    /\ arg[1] = " "
    /\ ret.headers = << <<"a">> >>
    /\ Len(ret.data) = 1
    /\ Len(ret.data[1]) = 2

\* C10 as stated: the delimiter of the exported text is the delimiter
\* parseCSV split the uploaded file by.
C10_ExportDelimiterIsParsed ==
    download # NoDownload => download.delimiter = delimiterUsed


\* No cell of the parsed table holds ',' or ';'.
NoDelimiterInCells(parsed) ==
    LET clean(row) ==
            \A j \in 1..Len(row) : ~Includes(row[j], ",") /\ ~Includes(row[j], ";")
    IN  /\ clean(parsed.headers)
        /\ \A i \in 1..Len(parsed.data) : clean(parsed.data[i])

\* C11: when no cell that parseCSV made of a text holds ',' or ';', parsing
\* the text of the export of its headers and rows (joined by the delimiter
\* parseCSV split by, lines joined by "\n") gives the same headers and rows.
C11_RoundTrip ==
    (ret.op = "reparse" /\ NoDelimiterInCells(ret.first)) =>
        /\ ret.headers = ret.first.headers
        /\ ret.data = ret.first.data

\* A round trip of a ';' file whose text has a blank line and a padded cell,
\* so that the exported text is not the text parsed first.
C11_Witness ==
    /\ ret.op = "reparse"
    /\ NoDelimiterInCells(ret.first)
    /\ ret.first.delimiter = ";"
    /\ Len(ret.data) = 1
    /\ ret.text # arg
    /\ Len(TextLines(arg)) < Cardinality(Newlines(arg)) + 1
    /\ \E i \in 1..Len(arg) : arg[i] = " "


\* The cells of the table that differ from their trimmed form.
CellsToTrim(t) ==
    UNION {{<<i, j>> : j \in {k \in 1..Len(t[i]) :
                                 /\ ~IsNullish(t[i][k])
                                 /\ ~IsTrimOf(t[i][k], t[i][k])}} :
           i \in 1..Len(t)}

\* C12: trimWhitespace returns as many rows, each of as many cells, every
\* cell the trimmed form of the input cell and a null or undefined cell as it
\* was; count is the number of cells that differ from their trimmed form; and
\* [[" x ","y"]] gives [["x","y"]] and 1.
C12_TrimsEachCell ==
    (ret.op = "trimWhitespace" /\ ~ret.threw) =>
        /\ Len(ret.data) = Len(arg)
        /\ \A i \in 1..Len(arg) :
               /\ Len(ret.data[i]) = Len(arg[i])
               /\ \A j \in 1..Len(arg[i]) :
                      IF IsNullish(arg[i][j])
                      THEN ret.data[i][j] = arg[i][j]
                      ELSE IsTrimOf(ret.data[i][j], arg[i][j])
        /\ ret.count = Cardinality(CellsToTrim(arg))
        /\ arg = << <<<<" ", "x", " ">>, <<"y">>>> >> =>
               /\ ret.data = << <<<<"x">>, <<"y">>>> >>
               /\ ret.count = 1

\* trimWhitespace on a table with two padded cells in one row and an
\* undefined cell in the next: two cells counted, one row changed.
C12_Witness ==
    /\ ret.op = "trimWhitespace"
    /\ ~ret.threw
    /\ Len(arg) = 2
    /\ arg[1] = <<<<" ", "a">>, <<" ", "a">>>>
    /\ arg[2][1] = Undefined
    /\ ret.count = 2
    /\ ret.data[1] = <<<<"a">>, <<"a">>>>

\* trimWhitespace on the table of the example.
C12_ExampleWitness ==
    /\ ret.op = "trimWhitespace"
    /\ arg = << <<<<" ", "x", " ">>, <<"y">>>> >>
    /\ ret.count = 1


\* The name ends in "-cleaned.csv".
EndsInCleanedCsv(name) ==
    /\ Len(name) >= 2
    /\ name[Len(name) - 1] = "-cleaned"
    /\ name[Len(name)] = ".csv"

\* C13 as stated: the name handed to the browser with an export differs from
\* the name of the uploaded file and ends in "-cleaned.csv".
C13_ExportNameIsCleaned ==
    download # NoDownload =>
        /\ download.name # fileName
        /\ EndsInCleanedCsv(download.name)


\* C14 as stated: the current table is the table of the last upload or what
\* the transforms make of it under some option setting; a callback of a run
\* started before the upload does not replace it by rows of the earlier file.
C14_CurrentTableOfCurrentFile ==
    \/ csvData = originalData
    \/ \E opts \in OptionSettings :
           LET run == cleanDataTransforms(originalData, headers, opts)
           IN  ~run.threw /\ csvData = run.data


\* C15 as stated: while the uploaded table has rows the Clean tab can be
\* opened and shows CleaningOptions with its Apply Cleaning button, whatever a
\* cleaning run returned.
C15_CleanStaysReachable ==
    Len(originalData) > 0 => CleanMounted("clean", csvData)


\* The table and the stats of the callback when its trimWhitespace step is
\* reached.
BeforeWhitespaceStep(data, opts) ==
    DuplicatesStep(EmptyRowsStep(TryStart(data), opts), opts)

\* C16: on a table parseCSV returned, under every option setting, the
\* trimWhitespace step of the cleaning callback leaves every cell as it is and
\* whitespaceFixed is 0.
C16_NothingLeftToTrim ==
    ret.op = "cleanData" =>
        LET before == BeforeWhitespaceStep(ret.input, ret.opts)
        IN  /\ ~ret.threw
            /\ WhitespaceStep(before, ret.opts).data = before.data
            /\ ret.stats.whitespaceFixed = 0

\* A run with trimWhitespace on the table of a text with a padded cell in a
\* data row, which the run keeps.
C16_Witness ==
    /\ ret.op = "cleanData"
    /\ ret.opts.trimWhitespace
    /\ \E k \in 1..Len(ret.applied) : ret.applied[k] = "trimWhitespace"
    /\ Len(arg) >= 2
    /\ arg[Len(arg) - 1] = " "
    /\ arg[Len(arg)] = "a"
    /\ Len(ret.data) = 1
    /\ ret.data[1] = <<<<"a">>>>


\* out is the row from with its cells as they were, trimmed, lowercased or
\* both.
IsCleanedRowOf(out, from) ==
    /\ Len(out) = Len(from)
    /\ \A j \in 1..Len(from) :
           IF IsNullish(from[j]) THEN out[j] = from[j]
           ELSE out[j] \in {from[j], Trim(from[j]), ToLowerCase(from[j]),
                            ToLowerCase(Trim(from[j]))}

\* C17: a run that completes returns as many rows as its input had less
\* emptyRowsRemoved and duplicatesRemoved, and the rows it returns are rows of
\* the input in their order, each with as many cells as that row.
C17_RowsAccountedFor ==
    (ret.op = "cleanData" /\ ~ret.threw) =>
        /\ Len(ret.data) = Len(ret.input) - ret.stats.emptyRowsRemoved
                               - ret.stats.duplicatesRemoved
        /\ \E S \in SUBSET (1..Len(ret.input)) :
               /\ Cardinality(S) = Len(ret.data)
               /\ \A k \in 1..Len(ret.data) :
                      IsCleanedRowOf(ret.data[k], ret.input[KthOf(S, k)])

\* A run that removed an empty row and a duplicate and kept a row that came
\* before them, trimmed and lowercased.
C17_Witness ==
    /\ ret.op = "cleanData"
    /\ ~ret.threw
    /\ ret.stats.emptyRowsRemoved + ret.stats.duplicatesRemoved >= 1
    /\ Len(ret.input) = 2
    /\ Len(ret.data) = 1
    /\ ret.input[1] = <<<<"A">>, <<" ", "a">>>>
    /\ ret.data[1] = <<<<"a">>, <<"a">>>>

====
